---- MODULE Spec2Model ----
(***************************************************************************)
(* Dashboard de Alertas Tempranas (src/app.py): the Streamlit script that  *)
(* loads the survey sheet once, filters it by year, month and subject,     *)
(* renders three chart views, and builds the word-cloud frequency table    *)
(* from the free-text reasons.                                             *)
(*                                                                         *)
(* Text is modelled at character level: a string is a sequence of          *)
(* one-character strings, so that join / lower / translate / split and the *)
(* f"{w1} {w2}" key construction are computed, not assumed.                *)
(***************************************************************************)
EXTENDS Integers, Sequences, FiniteSets, TLC

(***************************************************************************)
(* Bounds of the model.                                                    *)
(***************************************************************************)
\* number of items (words, cell breaks, null cells) of a corpus of SpecTexto
MaxItems == 5
\* number of rows the response sheet can hold in Spec
MaxFilas == 2

(***************************************************************************)
(* TEXT PIPELINE  (src/app.py, lines 322-356)                              *)
(***************************************************************************)

\* stopwords_extra, lines 323-329
stopwords_extra ==
  { <<"m","e">>, <<"s","i">>, <<"h","a","y">>,
    <<"p","o","r","q","u","e">>, <<"s","u","f","i","c","i","e","n","t","e">>, <<"y","a">>,
    <<"s","o","l","o">>, <<"m","á","s">>, <<"m","e","n","o","s">>,
    <<"m","u","y">>, <<"p","u","e","d","e">>, <<"p","u","e","d","o">>,
    <<"f","u","e">>, <<"s","o","y">>, <<"e","s","t","o","y">>,
    <<"e","r","a">>, <<"e","s","t","a">>, <<"e","s","e">>,
    <<"e","s","o">>, <<"l","o">>, <<"l","a">>,
    <<"l","a","s">>, <<"l","o","s">>, <<"e","l">>,
    <<"u","n">>, <<"u","n","a">>, <<"u","n","o">>,
    <<"u","n","o","s">>, <<"u","n","a","s">>, <<"a","l">>,
    <<"d","e","l">>, <<"d","e">>, <<"p","o","r">>,
    <<"c","o","n">>, <<"p","a","r","a">>, <<"s","i","n">>,
    <<"s","o","b","r","e">>, <<"e","n","t","r","e">>, <<"q","u","e">>,
    <<"s","e">>, <<"y","o">>, <<"t","u">>,
    <<"m","i">> }
\* string.punctuation, used at line 334 ("<grave>" stands for the grave accent,
\* which a TLA+ string cannot hold)
punctuation ==
  { "!", "\"", "#", "$", "%", "&", "'", "(", ")", "*", "+",
    ",", "-", ".", "/", ":", ";", "<", "=", ">", "?", "@",
    "[", "\\", "]", "^", "_", "<grave>", "{", "|", "}", "~" }
\* the whitespace characters str.split() splits on (line 336)
whitespace == { " ", "\t", "\n", "\r", "\f" }

\* str.lower(), line 333: upper-case letters map to lower case, the rest stay
LowerMap ==
  "A" :> "a" @@ "B" :> "b" @@ "C" :> "c" @@ "D" :> "d" @@ "E" :> "e" @@ "F" :> "f" @@
  "G" :> "g" @@ "H" :> "h" @@ "I" :> "i" @@ "J" :> "j" @@ "K" :> "k" @@ "L" :> "l" @@
  "M" :> "m" @@ "N" :> "n" @@ "O" :> "o" @@ "P" :> "p" @@ "Q" :> "q" @@ "R" :> "r" @@
  "S" :> "s" @@ "T" :> "t" @@ "U" :> "u" @@ "V" :> "v" @@ "W" :> "w" @@ "X" :> "x" @@
  "Y" :> "y" @@ "Z" :> "z" @@ "Á" :> "á" @@ "É" :> "é" @@ "Í" :> "í" @@ "Ó" :> "ó" @@
  "Ú" :> "ú" @@ "Ñ" :> "ñ" @@ "Ü" :> "ü"

(***************************************************************************)
(* State.                                                                  *)
(***************************************************************************)
VARIABLES
  corpus,     \* SpecTexto: the column df_filtered[col_preg1] handed to the pipeline
  nube,       \* the locals of the word-cloud block: texto, tokens,
              \* palabras_filtradas, bigramas, frecuencias
  cache,      \* st.cache_data's entry for cargar_datos()
  hist,       \* history: the sheet as the first successful fetch read it, and
              \* the number of successful fetches
  widgets,    \* the session's widget values (year, month, subjects), as the
              \* last run's sidebar returned them
  run         \* the last run of the script: what it computed and showed

\* a missing value (NaN) of a text column, and a cell holding a string
NA == [na |-> TRUE, txt |-> <<>>]
Celda(s) == [na |-> FALSE, txt |-> s]

\* Series.dropna(), lines 319 and 332
dropna(col) == SelectSeq(col, LAMBDA c : ~c.na)

RECURSIVE join(_, _)
\* sep.join(strs), line 332
join(sep, strs) ==
  IF strs = <<>> THEN <<>>
  ELSE IF Len(strs) = 1 THEN strs[1]
  ELSE strs[1] \o sep \o join(sep, Tail(strs))

\* str.lower(), line 333
lower(s) == [i \in 1..Len(s) |-> IF s[i] \in DOMAIN LowerMap THEN LowerMap[s[i]] ELSE s[i]]

\* str.translate(str.maketrans("", "", string.punctuation)), line 334
translate(s) == SelectSeq(s, LAMBDA c : c \notin punctuation)

RECURSIVE splitFrom(_, _, _)
\* str.split() scanning from position i with the token cur being read
splitFrom(s, i, cur) ==
  LET fin == IF cur = <<>> THEN <<>> ELSE <<cur>>
  IN  IF i > Len(s) THEN fin
      ELSE IF s[i] \in whitespace THEN fin \o splitFrom(s, i + 1, <<>>)
      ELSE splitFrom(s, i + 1, Append(cur, s[i]))

\* str.split(), line 336: split on runs of whitespace, no empty token
split(s) == splitFrom(s, 1, <<>>)

\* a separator that leaves a marker token between two responses
SeparadorConMarca == <<" ", "x", "x", "x", " ">>

\* the separator of line 332
Separador == <<" ">>

\* texto, lines 332-334
ConstruirTexto(col) ==
  LET noNulas == dropna(col)
      cadenas == [i \in 1..Len(noNulas) |-> noNulas[i].txt]
  IN  translate(lower(join(Separador, cadenas)))

\* a filter that forgets the stopword test
EsPalabraSoloLargo(t) == Len(t) > 2

\* the condition of the comprehension, line 341
EsPalabra(t) == t \notin stopwords_extra /\ Len(t) > 2

\* palabras_filtradas, lines 339-342
FiltrarPalabras(tokens) == SelectSeq(tokens, EsPalabra)

\* a bigram test that asks both words to be outside the stopwords
AdmiteBigramaEstricto(w1, w2) ==
  (w1 \notin stopwords_extra /\ w2 \notin stopwords_extra) /\ Len(w1) > 2 /\ Len(w2) > 2

\* the condition of lines 347-348
AdmiteBigrama(w1, w2) ==
  (w1 \notin stopwords_extra \/ w2 \notin stopwords_extra) /\ Len(w1) > 2 /\ Len(w2) > 2

\* zip(tokens, tokens[1:]), line 346
zip(tokens) ==
  IF Len(tokens) < 2 THEN <<>>
  ELSE [i \in 1..(Len(tokens) - 1) |-> <<tokens[i], tokens[i + 1]>>]

\* f"{w1} {w2}", line 349
fstring(w1, w2) == w1 \o <<" ">> \o w2

\* bigramas, lines 345-349
CrearBigramas(tokens) ==
  LET admitidos == SelectSeq(zip(tokens), LAMBDA p : AdmiteBigrama(p[1], p[2]))
  IN  [i \in 1..Len(admitidos) |-> fstring(admitidos[i][1], admitidos[i][2])]

\* Counter(), line 352
Counter == <<>>

\* frecuencias[k] += n, lines 354 and 356
Sumar(frec, k, n) ==
  IF k \in DOMAIN frec THEN [frec EXCEPT ![k] = @ + n] ELSE frec @@ (k :> n)

RECURSIVE Acumular(_, _, _)
\* one of the two for loops of lines 353-356
Acumular(frec, claves, n) ==
  IF claves = <<>> THEN frec
  ELSE Acumular(Sumar(frec, Head(claves), n), Tail(claves), n)

\* frecuencias, lines 352-356
ContarFrecuencias(palabras, bigramas) ==
  Acumular(Acumular(Counter, palabras, 1), bigramas, 2)

\* the locals of the block before it runs
SinNube ==
  [hecho |-> FALSE, texto |-> <<>>, tokens |-> <<>>, palabras_filtradas |-> <<>>,
   bigramas |-> <<>>, frecuencias |-> Counter]

\* lines 331-356 on one column
Analizar(col) ==
  LET texto == ConstruirTexto(col)
      tokens == split(texto)
      palabras == FiltrarPalabras(tokens)
      bigramas == CrearBigramas(tokens)
  IN  [hecho |-> TRUE, texto |-> texto, tokens |-> tokens,
       palabras_filtradas |-> palabras, bigramas |-> bigramas,
       frecuencias |-> ContarFrecuencias(palabras, bigramas)]

\* the elements of a sequence
Rango(s) == { s[i] : i \in 1..Len(s) }

(***************************************************************************)
(* DATA LOADING  (src/app.py, lines 52-86)                                 *)
(***************************************************************************)

\* lines 18-22: the wordcloud package is installed, the import succeeds
WORDCLOUD_AVAILABLE == TRUE

\* a "Marca temporal" cell as the sheet holds it: text of a date, or text
\* that is no date
Fecha(a, m) == [valida |-> TRUE, a |-> a, m |-> m]
FechaIlegible == [valida |-> FALSE, a |-> 0, m |-> 0]

\* NaT, and pd.to_datetime(..., errors="coerce") on one cell, line 74
NaT == [nat |-> TRUE, a |-> 0, m |-> 0]
to_datetime(f) == IF f.valida THEN [nat |-> FALSE, a |-> f.a, m |-> f.m] ELSE NaT

\* the values a selection or a cell of the columns "Año" / "Mes" can take:
\* an integer, a float (the column's dtype once it holds a NaN), NaN, None
Entero(v) == [t |-> "int", v |-> v]
Flotante(v) == [t |-> "float", v |-> v]
NaN == [t |-> "nan", v |-> 0]
None == [t |-> "None", v |-> 0]

\* one cell of Series.dt.year / .dt.month, lines 75-76: NaN for NaT, and the
\* whole column is float64 when any cell is NaT
Componente(hayNaT, d, v) ==
  IF d.nat THEN NaN ELSE IF hayNaT THEN Flotante(v) ELSE Entero(v)

\* the body of cargar_datos() on the fetched sheet, lines 61-78.  A row of
\* the frame keeps its index label, the subject, the primary reason and the
\* derived "Año" and "Mes"; the columns no later line reads (the parsed
\* timestamp, the secondary reason) are left out
Transformar(hoja) ==
  LET fechas == [i \in 1..Len(hoja) |-> to_datetime(hoja[i].fecha)]
      hayNaT == \E i \in 1..Len(hoja) : fechas[i].nat
  IN  [i \in 1..Len(hoja) |->
         [idx |-> i, asig |-> hoja[i].asig, preg1 |-> hoja[i].preg1,
          anio |-> Componente(hayNaT, fechas[i], fechas[i].a),
          mes |-> Componente(hayNaT, fechas[i], fechas[i].m)]]

SinCache == [lleno |-> FALSE, df |-> <<>>]

\* cargar_datos() that fetches again when the first fetch raises
CargarDatosConReintento(c, hoja, falla) ==
  IF c.lleno THEN [ok |-> TRUE, df |-> c.df, cache |-> c, fetch |-> 0]
  ELSE IF falla THEN [ok |-> FALSE, df |-> <<>>, cache |-> c, fetch |-> 2]
  ELSE LET df == Transformar(hoja)
       IN  [ok |-> TRUE, df |-> df, cache |-> [lleno |-> TRUE, df |-> df], fetch |-> 1]

\* cargar_datos() without the decorator of line 52
CargarDatosSinCache(c, hoja, falla) ==
  IF falla /\ ~c.lleno THEN [ok |-> FALSE, df |-> <<>>, cache |-> c, fetch |-> 1]
  ELSE LET df == Transformar(hoja)
       IN  [ok |-> TRUE, df |-> df, cache |-> [lleno |-> TRUE, df |-> df], fetch |-> 1]

\* the call cargar_datos() under @st.cache_data, lines 52-78 and 82: a stored
\* result is returned without running the body; the body fetches once
\* (pd.read_csv, line 61); a result is stored only when the body returns, so
\* an exception leaves the cache empty
CargarDatos(c, hoja, falla) ==
  IF c.lleno THEN [ok |-> TRUE, df |-> c.df, cache |-> c, fetch |-> 0]
  ELSE IF falla THEN [ok |-> FALSE, df |-> <<>>, cache |-> c, fetch |-> 1]
  ELSE LET df == Transformar(hoja)
       IN  [ok |-> TRUE, df |-> df, cache |-> [lleno |-> TRUE, df |-> df], fetch |-> 1]

(***************************************************************************)
(* SIDEBAR AND FILTER  (lines 99-137)                                      *)
(***************************************************************************)

\* the subject labels of the model, in the order sorted() gives them
Asignaturas == <<"Circuitos", "Digitales">>

RECURSIVE sorted(_)
\* sorted() of a set of numbers
sorted(S) ==
  IF S = {} THEN <<>>
  ELSE LET menor == CHOOSE x \in S : \A y \in S : x.v <= y.v
       IN  <<menor>> \o sorted(S \ {menor})

\* años_disponibles, line 102
AniosDisponibles(df) ==
  sorted({ df[i].anio : i \in { k \in 1..Len(df) : df[k].anio # NaN } })

\* meses_disponibles, line 110
MesesDisponibles(df) ==
  sorted({ df[i].mes : i \in { k \in 1..Len(df) : df[k].mes # NaN } })

\* asignaturas_disponibles, line 118
AsignaturasDisponibles(df) ==
  SelectSeq(Asignaturas, LAMBDA a : \E i \in 1..Len(df) : df[i].asig = a)

SinWidgets == [puestos |-> FALSE, anio |-> None, mes |-> None, asigs |-> {}]

\* st.sidebar.selectbox(options, index=0 if options else None), lines 103-107
\* and 111-115: the session's value when the user set one, else the first
\* option, None without options
Selectbox(opciones, puesto, valor) ==
  IF puesto /\ \E i \in 1..Len(opciones) : opciones[i] = valor THEN valor
  ELSE IF opciones # <<>> THEN opciones[1]
  ELSE None

\* st.sidebar.multiselect(options, default=options[:1]), lines 119-123
Multiselect(opciones, puesto, valor) ==
  IF puesto THEN valor \cap { opciones[i] : i \in 1..Len(opciones) }
  ELSE IF opciones # <<>> THEN {opciones[1]}
  ELSE {}

\* the element-wise == of lines 131-132: NaN and None equal nothing
Igual(x, sel) ==
  x.t \in {"int", "float"} /\ sel.t \in {"int", "float"} /\ x.v = sel.v

\* a filter that drops the month test, as the heat map's does
FiltrarSinMes(df, anio, mes, asigs) ==
  LET porFecha == SelectSeq(df, LAMBDA r : Igual(r.anio, anio))
  IN  IF asigs # {} THEN SelectSeq(porFecha, LAMBDA r : r.asig \in asigs)
      ELSE porFecha

\* df_filtrado, lines 130-137
Filtrar(df, anio, mes, asigs) ==
  LET porFecha == SelectSeq(df, LAMBDA r : Igual(r.anio, anio) /\ Igual(r.mes, mes))
  IN  IF asigs # {} THEN SelectSeq(porFecha, LAMBDA r : r.asig \in asigs)
      ELSE porFecha

(***************************************************************************)
(* METRICS AND VIEWS  (lines 143-401)                                      *)
(***************************************************************************)

\* f"{año_seleccionado}-{mes_seleccionado:02d}", line 152: the format code d
\* takes an integer; a float raises ValueError, None raises TypeError
FormatoPeriodo(anio, mes) ==
  IF mes.t = "int" THEN "ok"
  ELSE IF mes.t = "None" THEN "TypeError"
  ELSE "ValueError"

\* tab 1, lines 179-232
Tab1(df_filtrado, btn) ==
  IF df_filtrado = <<>> THEN {"tab1_warning"}
  ELSE {"tab1_chart", "btn_asignatura"} \cup (IF btn THEN {"download_button"} ELSE {})

\* tab 2, lines 238-268
Tab2(df_filtrado) ==
  IF df_filtrado = <<>> THEN {"tab2_warning"}
  ELSE {"tab2_chart", "tab2_tabla"}

\* df_heatmap, lines 278-281: by year and subject, not by month
FiltrarHeatmap(df, anio, asigs) ==
  LET porAnio == SelectSeq(df, LAMBDA r : Igual(r.anio, anio))
  IN  IF asigs # {} THEN SelectSeq(porAnio, LAMBDA r : r.asig \in asigs)
      ELSE porAnio

\* tab 3, lines 274-309.  pd.crosstab drops the rows without a reason; what
\* sns.heatmap does with a table of no cell is the plotting library's
\* choice: it draws (dibuja) or it raises
Tab3(df_heatmap, dibuja) ==
  IF df_heatmap = <<>> THEN [shown |-> {"tab3_warning"}, error |-> FALSE]
  ELSE IF (\A i \in 1..Len(df_heatmap) : df_heatmap[i].preg1.na) /\ ~dibuja
    THEN [shown |-> {}, error |-> TRUE]
  ELSE [shown |-> {"tab3_heatmap", "tab3_tabla"}, error |-> FALSE]

\* a corpus taken from the filtered rows
CorpusDeFiltrado(df_filtered, df_filtrado) ==
  [i \in 1..Len(df_filtrado) |-> df_filtrado[i].preg1]

\* df_filtered[col_preg1], lines 319 and 332: the column of the whole dataset
CorpusDeNube(df_filtered, df_filtrado) ==
  [i \in 1..Len(df_filtered) |-> df_filtered[i].preg1]

\* tab 4 drawing whatever the table holds
Tab4SinGuardia(df_filtered, df_filtrado) ==
  LET col == CorpusDeNube(df_filtered, df_filtrado)
  IN  [shown |-> {"tab4_nube", "tab4_top20"}, nube |-> Analizar(col)]

\* tab 4, lines 316-386
Tab4(df_filtered, df_filtrado) ==
  LET col == CorpusDeNube(df_filtered, df_filtrado)
  IN  IF dropna(col) = <<>>
        THEN [shown |-> {"tab4_warning_datos"}, nube |-> SinNube]
      ELSE LET n == Analizar(col)
           IN  IF n.frecuencias = Counter
                 THEN [shown |-> {"tab4_warning_palabras"}, nube |-> n]
               ELSE [shown |-> {"tab4_nube", "tab4_top20"}, nube |-> n]

SinRun ==
  [estado |-> "inicio", fetch |-> 0, df_filtrado |-> <<>>, shown |-> {}, btn |-> FALSE]

\* one run of the script, top to bottom (lines 17-401), on the outcome of
\* cargar_datos(), the session's widget values, the state of the button of
\* line 207 and the import flag.  A raised exception ends the run and is shown.
Script(carga, w, btn, wc, dibuja) ==
  LET aviso == IF wc THEN {} ELSE {"warning_wordcloud"}
  IN
  IF ~carga.ok
    THEN \* lines 84-86: st.error, st.stop
         [run |-> [SinRun EXCEPT !.estado = "stopped", !.fetch = carga.fetch,
                                 !.shown = aviso \cup {"error_carga"}],
          nube |-> SinNube, widgets |-> SinWidgets]
  ELSE
    LET df == carga.df
        anio == Selectbox(AniosDisponibles(df), w.puestos, w.anio)
        mes == Selectbox(MesesDisponibles(df), w.puestos, w.mes)
        asigs == Multiselect(AsignaturasDisponibles(df), w.puestos, w.asigs)
        df_filtrado == Filtrar(df, anio, mes, asigs)
        periodo == FormatoPeriodo(anio, mes)
        hastaMetricas == aviso \cup {"success", "titulo", "sidebar",
                                     "metric_total", "metric_asignaturas"}
        base == [SinRun EXCEPT !.fetch = carga.fetch,
                               !.df_filtrado = df_filtrado, !.btn = btn]
        ws == [puestos |-> TRUE, anio |-> anio, mes |-> mes, asigs |-> asigs]
    IN
    IF periodo # "ok"
      THEN [run |-> [base EXCEPT !.estado = "excepcion",
                                 !.shown = hastaMetricas \cup {"excepcion"}],
            nube |-> SinNube, widgets |-> ws]
    ELSE
      LET df_heatmap == FiltrarHeatmap(df, anio, asigs)
          t3 == Tab3(df_heatmap, dibuja)
          hastaTab2 == hastaMetricas \cup {"metric_periodo"}
                         \cup Tab1(df_filtrado, btn) \cup Tab2(df_filtrado)
      IN
      IF t3.error
        THEN [run |-> [base EXCEPT !.estado = "excepcion",
                                   !.shown = hastaTab2 \cup {"excepcion"}],
              nube |-> SinNube, widgets |-> ws]
      ELSE
        LET t4 == IF wc THEN Tab4(df, df_filtrado)
                  ELSE [shown |-> {}, nube |-> SinNube]
        IN  [run |-> [base EXCEPT !.estado = "completo",
                                  !.shown = hastaTab2 \cup t3.shown \cup t4.shown
                                              \cup {"footer"}],
             nube |-> t4.nube, widgets |-> ws]

(***************************************************************************)
(* Spec: the dashboard process.  Every interaction reruns the script; a    *)
(* fetch reads the response sheet as it is at that moment, which can be    *)
(* any sheet of at most MaxFilas rows.                                     *)
(***************************************************************************)
Fechas == { Fecha(2023, 1), Fecha(2023, 2), Fecha(2024, 1), FechaIlegible }

\* reasons as respondents type them: none, one of stopwords only, one with
\* a word that counts
Razones ==
  { NA,
    Celda(<<"M","u","y",".">>),
    Celda(<<"s","i","n"," ","r","e","d">>) }

Filas ==
  { [fecha |-> f, asig |-> Asignaturas[a], preg1 |-> r] :
      f \in Fechas, a \in 1..Len(Asignaturas), r \in Razones }

\* the response sheets a fetch can read
Hojas == UNION { [1..n -> Filas] : n \in 0..MaxFilas }

SinHistoria == [primera |-> <<>>, descargas |-> 0]

vars == <<corpus, nube, cache, hist, widgets, run>>

Init ==
  /\ cache = SinCache
  /\ hist = SinHistoria
  /\ widgets = SinWidgets
  /\ run = SinRun
  /\ nube = SinNube
  /\ corpus = <<>>

\* whether the cross table of line 287 has no cell: rows, none with a reason
TablaSinCeldas(df_heatmap) ==
  df_heatmap # <<>> /\ \A i \in 1..Len(df_heatmap) : df_heatmap[i].preg1.na

\* the outcomes a run of the script can have
Resultados(carga, w, btn, wc) ==
  LET r == Script(carga, w, btn, wc, TRUE)
  IN  IF /\ r.run.estado = "completo"
         /\ TablaSinCeldas(FiltrarHeatmap(carga.df, r.widgets.anio, r.widgets.asigs))
        THEN {r, Script(carga, w, btn, wc, FALSE)}
      ELSE {r}

\* a run of the script with widget values w and button state btn; a run
\* that finds the cache empty fetches the sheet, and the fetch returns the
\* sheet or raises; a run that finds the cache full reads nothing
Ejecutar(w, btn) ==
  \E falla \in (IF cache.lleno THEN {FALSE} ELSE BOOLEAN) :
    \E hoja \in (IF cache.lleno \/ falla THEN {<<>>} ELSE Hojas) :
      \E carga \in {CargarDatos(cache, hoja, falla)} :
        \E r \in Resultados(carga, w, btn, WORDCLOUD_AVAILABLE) :
          /\ cache' = carga.cache
          /\ hist' = IF carga.ok /\ carga.fetch > 0
                       THEN [primera |-> IF hist.descargas = 0 THEN hoja
                                         ELSE hist.primera,
                             descargas |-> hist.descargas + 1]
                     ELSE hist
          /\ run' = r.run
          /\ nube' = r.nube
          /\ widgets' = r.widgets
          /\ UNCHANGED corpus

\* the page is opened or reloaded, or the user asks for a rerun
Rerun == Ejecutar(widgets, FALSE)

\* the user picks another year in the selectbox of line 103
SeleccionarAnio ==
  /\ "sidebar" \in run.shown
  /\ \E a \in Rango(AniosDisponibles(cache.df)) \ {widgets.anio} :
       Ejecutar([widgets EXCEPT !.anio = a], FALSE)

\* the user picks another month in the selectbox of line 111
SeleccionarMes ==
  /\ "sidebar" \in run.shown
  /\ \E m \in Rango(MesesDisponibles(cache.df)) \ {widgets.mes} :
       Ejecutar([widgets EXCEPT !.mes = m], FALSE)

\* the user changes the multiselect of line 119
SeleccionarAsignaturas ==
  /\ "sidebar" \in run.shown
  /\ \E s \in (SUBSET Rango(AsignaturasDisponibles(cache.df))) \ {widgets.asigs} :
       Ejecutar([widgets EXCEPT !.asigs = s], FALSE)

\* the user clicks the button of line 207
ClickDescargarGrafico ==
  /\ "btn_asignatura" \in run.shown
  /\ Ejecutar(widgets, TRUE)

\* the user clicks the download button of line 226
ClickDescargarPNG ==
  /\ "download_button" \in run.shown
  /\ Ejecutar(widgets, FALSE)

Next ==
  \/ Rerun
  \/ SeleccionarAnio
  \/ SeleccionarMes
  \/ SeleccionarAsignaturas
  \/ ClickDescargarGrafico
  \/ ClickDescargarPNG

Spec == Init /\ [][Next]_vars

(***************************************************************************)
(* SpecTexto: the pipeline as a function of the reason column.  A corpus   *)
(* is written as a stream of items: a word is added to the open cell       *)
(* (after a space), FinCelda closes the cell, CeldaNula closes it and adds *)
(* a missing value.                                                        *)
(***************************************************************************)
FinCelda == <<"<fin>">>
CeldaNula == <<"<NaN>">>

\* raw words as respondents type them: two stopwords of length 3 (one
\* capitalised), two other words (one with punctuation), a short word after a tab
Palabras ==
  { <<"E","s","e">>, <<"e","s","o">>, <<"o","s","o",",">>, <<"m","a","l">>,
    <<"\t","i","r">> }

Items == Palabras \cup {FinCelda, CeldaNula}

\* the column with the open cell closed
Cerrar(col, abierta) == IF abierta = <<>> THEN col ELSE Append(col, Celda(abierta))

RECURSIVE Columna(_, _, _)
\* the column an item stream stands for
Columna(items, abierta, col) ==
  IF items = <<>> THEN Cerrar(col, abierta)
  ELSE LET it == Head(items)
       IN  IF it = FinCelda THEN Columna(Tail(items), <<>>, Cerrar(col, abierta))
           ELSE IF it = CeldaNula
             THEN Columna(Tail(items), <<>>, Append(Cerrar(col, abierta), NA))
           ELSE Columna(Tail(items),
                        IF abierta = <<>> THEN it ELSE abierta \o <<" ">> \o it, col)

Corpora ==
  { Columna(s, <<>>, <<>>) : s \in UNION { [1..n -> Items] : n \in 0..MaxItems } }

InitTexto ==
  /\ corpus \in Corpora /\ nube = SinNube
  /\ cache = SinCache /\ hist = SinHistoria
  /\ widgets = SinWidgets /\ run = SinRun

\* the word-cloud block, lines 331-356, run on the column
NubeDePalabras ==
  /\ ~nube.hecho
  /\ nube' = Analizar(corpus)
  /\ UNCHANGED <<corpus, cache, hist, widgets, run>>

NextTexto == NubeDePalabras

SpecTexto == InitTexto /\ [][NextTexto]_vars

(***************************************************************************)
(* Properties of the text pipeline (checked under SpecTexto).              *)
(***************************************************************************)
Adyacentes(T, a, b) == { i \in 1..(Len(T) - 1) : T[i] = a /\ T[i + 1] = b }
Apariciones(T, t) == { i \in 1..Len(T) : T[i] = t }
TieneEspacio(k) == \E i \in 1..Len(k) : k[i] = " "
Clave(a, b) == a \o <<" ">> \o b
ParAdmisible(a, b) ==
  Len(a) >= 3 /\ Len(b) >= 3 /\ ~(a \in stopwords_extra /\ b \in stopwords_extra)

\* C1: the table holds the key "a b" exactly when a is immediately followed by
\* b in the unfiltered token sequence, both have length >= 3 and at least one
\* is not a stopword; its weight is then 2 times the number of such adjacent
\* occurrences; every key with a space is such a pair.
C1_BigramasExactos ==
  nube.hecho =>
    LET T == nube.tokens
        F == nube.frecuencias
    IN  /\ \A a, b \in Rango(T) :
             LET n == Cardinality(Adyacentes(T, a, b))
                 admitido == n > 0 /\ ParAdmisible(a, b)
             IN  /\ (Clave(a, b) \in DOMAIN F) <=> admitido
                 /\ admitido => F[Clave(a, b)] = 2 * n
        /\ \A k \in DOMAIN F :
             TieneEspacio(k) =>
               \E a, b \in Rango(T) : k = Clave(a, b) /\ Adyacentes(T, a, b) # {}

\* a corpus with an adjacent pair of two stopwords of length 3 (no key), a
\* pair with exactly one stopword met twice (weight 4), and two kept words
\* that are neighbours only after the filtering (no key)
C1_Testigo ==
  /\ nube.hecho
  /\ LET T == nube.tokens
         F == nube.frecuencias
         P == nube.palabras_filtradas
     IN  /\ \E a, b \in Rango(T) :
               /\ a \in stopwords_extra /\ b \in stopwords_extra
               /\ Len(a) >= 3 /\ Len(b) >= 3
               /\ Adyacentes(T, a, b) # {}
               /\ Clave(a, b) \notin DOMAIN F
         /\ \E a, b \in Rango(T) :
               /\ (a \in stopwords_extra) # (b \in stopwords_extra)
               /\ Cardinality(Adyacentes(T, a, b)) = 2
               /\ Clave(a, b) \in DOMAIN F /\ F[Clave(a, b)] = 4
         /\ \E a, b \in Rango(P) :
               /\ Adyacentes(P, a, b) # {}
               /\ Adyacentes(T, a, b) = {}
               /\ Clave(a, b) \notin DOMAIN F

\* C2: a space-free string is a key exactly when it occurs in the token
\* sequence, is not a stopword and has length >= 3; its weight is the number
\* of its occurrences.  No stopword and no string shorter than 3 is a key.
C2_UnigramasExactos ==
  nube.hecho =>
    LET T == nube.tokens
        F == nube.frecuencias
    IN  /\ \A t \in Rango(T) \cup stopwords_extra :
             LET n == Cardinality(Apariciones(T, t))
                 admitido == n > 0 /\ t \notin stopwords_extra /\ Len(t) >= 3
             IN  /\ ~TieneEspacio(t)
                 /\ (t \in DOMAIN F) <=> admitido
                 /\ admitido => F[t] = n
        /\ \A k \in DOMAIN F :
             ~TieneEspacio(k) =>
               k \in Rango(T) /\ k \notin stopwords_extra /\ Len(k) >= 3

\* a corpus with a word kept twice (weight 2), a stopword of length 3 and a
\* short token that are no keys, and a stopword inside a bigram key
C2_Testigo ==
  /\ nube.hecho
  /\ LET T == nube.tokens
         F == nube.frecuencias
     IN  /\ \E t \in Rango(T) : t \in DOMAIN F /\ F[t] = 2
         /\ \E t \in Rango(T) :
               t \in stopwords_extra /\ Len(t) >= 3 /\ t \notin DOMAIN F
         /\ \E t \in Rango(T) : Len(t) < 3 /\ t \notin DOMAIN F
         /\ \E a, b \in Rango(T) :
               a \in stopwords_extra /\ Clave(a, b) \in DOMAIN F

\* the tokens of one response alone
TokensDe(c) == split(translate(lower(c.txt)))

\* rows i < j of the column hold responses with only missing values between
Consecutivas(col, i, j) ==
  /\ i < j /\ ~col[i].na /\ ~col[j].na
  /\ \A k \in (i + 1)..(j - 1) : col[k].na

\* C9: for two non-null responses that are consecutive in the corpus (nulls
\* between them skipped), the last token of the first and the first token of
\* the second are adjacent in the token sequence, and the pair is a key
\* (weight 2 per adjacent occurrence) under the admission rule of any pair.
C9_BigramaEntreRespuestas ==
  nube.hecho =>
    LET T == nube.tokens
        F == nube.frecuencias
    IN  \A i, j \in 1..Len(corpus) :
          LET ti == TokensDe(corpus[i])
              tj == TokensDe(corpus[j])
          IN  (Consecutivas(corpus, i, j) /\ ti # <<>> /\ tj # <<>>) =>
                LET a == ti[Len(ti)]
                    b == tj[1]
                IN  /\ \E p \in 1..(Len(T) - 1) :
                         /\ T[p] = a /\ T[p + 1] = b
                         /\ p >= Len(ti) /\ p + Len(tj) <= Len(T)
                         /\ SubSeq(T, p - Len(ti) + 1, p) = ti
                         /\ SubSeq(T, p + 1, p + Len(tj)) = tj
                    /\ (Clave(a, b) \in DOMAIN F) <=> ParAdmisible(a, b)
                    /\ ParAdmisible(a, b) =>
                         F[Clave(a, b)] = 2 * Cardinality(Adyacentes(T, a, b))

\* two responses of one word each with a missing value between them, whose
\* words make a key of weight 2 that neither response holds alone
C9_Testigo ==
  /\ nube.hecho
  /\ \E i, j \in 1..Len(corpus) :
       /\ Consecutivas(corpus, i, j) /\ j > i + 1
       /\ Len(TokensDe(corpus[i])) = 1 /\ Len(TokensDe(corpus[j])) = 1
       /\ LET k == Clave(TokensDe(corpus[i])[1], TokensDe(corpus[j])[1])
          IN  k \in DOMAIN nube.frecuencias /\ nube.frecuencias[k] = 2

(***************************************************************************)
(* Properties of the dashboard (checked under Spec).                       *)
(***************************************************************************)

\* the last run got past the data loading
Cargado == run.estado \in {"excepcion", "completo"}

\* a year or month value that is a number
EsNumero(x) == x.t \in {"int", "float"}

\* row r has the selected year and month, and its subject is selected when
\* any subject is
Coincide(r) ==
  /\ EsNumero(r.anio) /\ EsNumero(widgets.anio) /\ r.anio.v = widgets.anio.v
  /\ EsNumero(r.mes) /\ EsNumero(widgets.mes) /\ r.mes.v = widgets.mes.v
  /\ (widgets.asigs = {} \/ r.asig \in widgets.asigs)

\* C4: the filter stage yields exactly the rows whose year equals the
\* selected year and whose month equals the selected month and whose subject
\* is selected (or no subject is), in source order; with year 2023 selected
\* no row of 2024 is kept.
C4_FiltroExacto ==
  Cargado =>
    LET df == cache.df
        f == run.df_filtrado
    IN  /\ \A j \in 1..Len(f) :
             f[j].idx \in 1..Len(df) /\ f[j] = df[f[j].idx] /\ Coincide(f[j])
        /\ \A i \in 1..Len(df) : Coincide(df[i]) => \E j \in 1..Len(f) : f[j] = df[i]
        /\ \A j, k \in 1..Len(f) : j < k => f[j].idx < f[k].idx
        /\ widgets.anio.v = 2023 => \A j \in 1..Len(f) : f[j].anio.v # 2024

\* a completed run with year 2023 selected that keeps a row and leaves out
\* a row of 2024 whose month and subject match the selection
C4_Testigo ==
  /\ run.estado = "completo"
  /\ widgets.anio.v = 2023
  /\ run.df_filtrado # <<>>
  /\ \E i \in 1..Len(cache.df) :
       /\ cache.df[i].anio.v = 2024
       /\ cache.df[i].mes.v = widgets.mes.v
       /\ cache.df[i].asig \in widgets.asigs
       /\ \A j \in 1..Len(run.df_filtrado) : run.df_filtrado[j] # cache.df[i]

\* the sheet without the rows whose timestamp is no date
SinIlegibles(hoja) == SelectSeq(hoja, LAMBDA f : f.fecha.valida)

\* a selection value as the dataset without unparseable rows offers it
ComoEntero(x) == IF x.t = "float" THEN Entero(x.v) ELSE x

\* C5: a row whose timestamp cannot be parsed gets null year and month, is
\* never offered as an option, never matches a selection, and causes no
\* surfaced error: the run completes as for the dataset without that row.
C5_FilaIlegibleSilenciosa ==
  (Cargado /\ \E i \in 1..Len(hist.primera) : ~hist.primera[i].fecha.valida) =>
    LET df == cache.df
        sinFila == Transformar(SinIlegibles(hist.primera))
        carga == [ok |-> TRUE, df |-> sinFila, cache |-> cache, fetch |-> run.fetch]
        w == [widgets EXCEPT !.anio = ComoEntero(@), !.mes = ComoEntero(@)]
    IN  /\ \A i \in 1..Len(df) :
             ~hist.primera[i].fecha.valida =>
               /\ df[i].anio = NaN /\ df[i].mes = NaN
               /\ \A j \in 1..Len(run.df_filtrado) : run.df_filtrado[j] # df[i]
        /\ NaN \notin Rango(AniosDisponibles(df)) \cup Rango(MesesDisponibles(df))
        /\ \E dibuja \in BOOLEAN :
             LET sinElla == Script(carga, w, run.btn, WORDCLOUD_AVAILABLE, dibuja).run
             IN  run.estado = sinElla.estado /\ run.shown = sinElla.shown

\* C6: whenever no row matches the selected year, month and subjects
\* (also when there is no year or month to select), the three chart views
\* show the warning instead of a chart and the run finishes without error.
C6_SinDatosAvisa ==
  (Cargado /\ run.df_filtrado = <<>>) =>
    /\ run.estado = "completo"
    /\ {"tab1_warning", "tab2_warning", "tab3_warning"} \subseteq run.shown
    /\ {"tab1_chart", "tab2_chart", "tab3_heatmap", "excepcion"} \cap run.shown = {}

\* C3: when the corpus is empty, or every token is a stopword or shorter
\* than 3, the table is empty, the cloud and the top-20 table are skipped
\* and a warning is shown; the cloud is drawn only from a non-empty table.
C3_NubeDegenerada ==
  LET df == cache.df
      sinRazones == \A i \in 1..Len(df) : df[i].preg1.na
      sinPalabras == \A t \in Rango(nube.tokens) : t \in stopwords_extra \/ Len(t) < 3
      dibujada == {"tab4_nube", "tab4_top20"} \cap run.shown # {}
  IN  /\ dibujada => nube.hecho /\ DOMAIN nube.frecuencias # {}
      /\ (run.estado = "completo" /\ WORDCLOUD_AVAILABLE) =>
           /\ "excepcion" \notin run.shown
           /\ sinRazones =>
                /\ nube.frecuencias = <<>> /\ ~dibujada
                /\ "tab4_warning_datos" \in run.shown
           /\ (~sinRazones /\ sinPalabras) =>
                /\ nube.hecho /\ nube.frecuencias = <<>> /\ ~dibujada
                /\ "tab4_warning_palabras" \in run.shown
           /\ (~sinRazones /\ ~sinPalabras) => dibujada

\* a completed run over responses that hold stopwords only: the table is
\* empty and the warning stands in for the cloud
C3_Testigo ==
  /\ run.estado = "completo"
  /\ nube.hecho /\ nube.tokens # <<>> /\ nube.frecuencias = <<>>
  /\ "tab4_warning_palabras" \in run.shown
  /\ "tab4_nube" \notin run.shown

\* C7 as claimed: after a failed fetch nothing but the error is shown, and
\* no later run of the script attempts a fetch
C7_UnSoloIntento ==
  /\ [](run.estado = "stopped" => run.shown = {"error_carga"} /\ run.fetch = 1)
  /\ [][(run.estado = "stopped" /\ run' # run) => run'.fetch = 0]_vars

\* C7, amended: when the fetch fails, the failure is shown and the run
\* halts there: nothing else is shown, no filter, metric or view is
\* computed, and the fetch was attempted once in that run.  Nothing is
\* cached, so the next run of the script fetches again.
C7_FalloDetieneLaEjecucion ==
  run.estado = "stopped" =>
    /\ run.shown = {"error_carga"}
    /\ run.fetch = 1
    /\ run.df_filtrado = <<>> /\ ~nube.hecho /\ widgets = SinWidgets
    /\ ~cache.lleno /\ hist.descargas = 0

\* a run whose fetch failed
C7_Testigo == run.estado = "stopped" /\ "error_carga" \in run.shown

\* C8: the dataset the runs work on is the snapshot of the first successful
\* fetch: it is fetched once, no interaction fetches it again, and no run
\* adds, removes or changes a row of it.
C8_DatasetInmutable ==
  /\ cache.lleno <=> hist.descargas = 1
  /\ hist.descargas <= 1
  /\ cache.lleno => cache.df = Transformar(hist.primera)
  /\ Cargado => cache.lleno

\* a run started by a download click, on a selection other than the
\* default one, has worked on the cached dataset without fetching
C8_Testigo ==
  /\ cache.lleno /\ Len(cache.df) = 2
  /\ run.estado = "completo" /\ run.btn /\ run.fetch = 0
  /\ widgets.asigs = {}
  /\ cache.df = Transformar(hist.primera)

\* the words of a response that the table counts
PalabrasDe(c) ==
  IF c.na THEN {} ELSE { t \in Rango(TokensDe(c)) : t \notin stopwords_extra /\ Len(t) >= 3 }

====
